---- MODULE Spec2Model ----
(***************************************************************************)
(* A model of NlpManager (src/lib/nlp/nlp-manager.js): the locale          *)
(* registry, the document/domain bookkeeping, training fan-out, the        *)
(* process pipeline and the import/export codec.                           *)
(*                                                                         *)
(* Conventions                                                             *)
(*  - a locale spelling is a sequence of one-character strings; the empty  *)
(*    sequence stands for a falsy locale (undefined or "").                *)
(*  - scores are tenths: 5 is the JavaScript number 0.5.                   *)
(*  - an optional JavaScript value is a sequence of length 0 or 1.         *)
(*  - sequences are 1-based; JavaScript index j is position j + 1.         *)
(***************************************************************************)
EXTENDS Integers, Sequences, FiniteSets, TLC

VARIABLES
    settings,       \* this.settings
    languages,      \* this.languages
    classifiers,    \* this.classifiers: locale -> NlpClassifier state
    intentDomains,  \* this.intentDomains: intent -> domain
    nerManager,     \* this.nerManager: the named entities it holds
    slotManager,    \* this.slotManager: the (intent, entity) slots it holds
    responses,      \* this.nlgManager.responses
    saved,          \* the string the last export() returned, if any
    trainCall,      \* the train() call in flight or last settled
    last,           \* outcome of an addDocument / removeDocument / clear call,
                    \* when it was the last call the caller made (observer's log)
    rt,             \* observer's log of an export/import/export round trip
    proc            \* the last process() call: inputs, oracle answers, result

vars == << settings, languages, classifiers, intentDomains, nerManager,
           slotManager, responses, saved, trainCall, last, rt, proc >>

-----------------------------------------------------------------------------
(* Bounds of the model *)

\* Number of features a training run produces (classifier.features.length).
MaxFeatures == 2

\* The score 0.5 isEqualClassification compares with, and the score 1 process
\* gives the "None" intent, in tenths.
Half == 5
FullScore == 10

\* Locale spellings callers pass.
En == << "e", "n" >>
Es == << "e", "s" >>
EnUS == << "E", "N", "-", "u", "s" >>
Fr == << "f", "r" >>
NoLocale == << >>


-----------------------------------------------------------------------------
(* Small helpers *)

Range(s) == { s[i] : i \in 1..Len(s) }

EmptyMap == [ x \in {} |-> x ]

\* obj[key] = value on a JavaScript object.
Put(obj, key, value) ==
    [ k \in DOMAIN obj \cup { key } |-> IF k = key THEN value ELSE obj[k] ]

\* String.prototype.toLowerCase, character by character.
LowerChar(c) ==
    CASE c = "E" -> "e"
      [] c = "N" -> "n"
      [] c = "S" -> "s"
      [] c = "U" -> "u"
      [] c = "F" -> "f"
      [] c = "R" -> "r"
      [] OTHER -> c

\* NlpUtil.getTruncatedLocale: the first two characters, lower-cased;
\* undefined for a falsy locale.
getTruncatedLocale(locale) ==
    IF locale = NoLocale THEN NoLocale
    ELSE LET cut == SubSeq(locale, 1, IF Len(locale) < 2 THEN Len(locale) ELSE 2)
         IN  [ i \in 1..Len(cut) |-> LowerChar(cut[i]) ]

\* new NlpClassifier({ language }): no documents, no features, untrained.
NewClassifier(locale) ==
    [ language |-> locale, docs |-> << >>, features |-> << >>,
      observations |-> EmptyMap ]

\* Nothing logged.
NoLast == [ op |-> "none", threw |-> FALSE, missing |-> FALSE ]
NoRt == [ phase |-> 0, model |-> EmptyMap, first |-> << >>, second |-> << >>,
         prev |-> << >> ]
NoTrain == [ tasks |-> << >>, promise |-> "none" ]
NoProc == [ state |-> "idle" ]

\* undefined or an array / single code, as addLanguage and train take it.
One(code) == [ isArray |-> FALSE, items |-> << code >> ]
Many(codes) == [ isArray |-> TRUE, items |-> codes ]

\* Array.isArray(x) ? x : [x]
AsArray(arg) == arg.items

-----------------------------------------------------------------------------
(* addLanguage *)

RECURSIVE addLanguageLoop(_, _, _)
\* The forEach of addLanguage over locales[i..], on the registry (langs, cls).
addLanguageLoop(locales, langs, cls) ==
    IF locales = << >> THEN [ languages |-> langs, classifiers |-> cls ]
    ELSE LET truncated == getTruncatedLocale(Head(locales))
             langs1 == IF truncated \in Range(langs) THEN langs
                       ELSE Append(langs, truncated)
             cls1 == IF truncated \in DOMAIN cls THEN cls
                     ELSE Put(cls, truncated, NewClassifier(truncated))
         IN  addLanguageLoop(Tail(locales), langs1, cls1)

\* addLanguage(srcLocales) applied to a registry; returns the new registry.
addLanguageOn(srcLocales, langs, cls) ==
    addLanguageLoop(AsArray(srcLocales), langs, cls)

AddLanguage(srcLocales) ==
    LET reg == addLanguageOn(srcLocales, languages, classifiers)
    IN  /\ languages' = reg.languages
        /\ classifiers' = reg.classifiers
        /\ last' = NoLast
        /\ proc' = NoProc
        /\ rt' = NoRt
        /\ UNCHANGED << settings, intentDomains, nerManager, slotManager,
                        responses, saved, trainCall >>

-----------------------------------------------------------------------------
(* guessLanguage *)

\* What this.guesser.guess(utterance, this.languages, 1) may answer: one of
\* the registered locales, or nothing (NoLocale stands for undefined).
GuessSet(langs) == Range(langs) \cup { NoLocale }

-----------------------------------------------------------------------------
(* Domains, entities, answers *)

\* assignDomain(intent, domain)
assignDomainOn(map, intent, domain) == Put(map, intent, domain)

AssignDomain(intent, domain) ==
    /\ intentDomains' = assignDomainOn(intentDomains, intent, domain)
    /\ last' = NoLast
    /\ proc' = NoProc
    /\ rt' = NoRt
    /\ UNCHANGED << settings, languages, classifiers, nerManager, slotManager,
                    responses, saved, trainCall >>

\* getDomains(): domain -> the intents assigned to it.
getDomains ==
    LET used == { intentDomains[i] : i \in DOMAIN intentDomains }
    IN  [ d \in used |-> { i \in DOMAIN intentDomains : intentDomains[i] = d } ]

\* addNamedEntityText(entityName, ...): the NER manager now holds the entity.
AddNamedEntityText(entityName) ==
    /\ nerManager' = nerManager \cup { entityName }
    /\ last' = NoLast
    /\ proc' = NoProc
    /\ rt' = NoRt
    /\ UNCHANGED << settings, languages, classifiers, intentDomains, slotManager,
                    responses, saved, trainCall >>

\* addAnswer(locale, intent, answer): the NLG manager now holds the answer.
AddAnswer(locale, intent, answer) ==
    /\ responses' = responses \cup { << locale, intent, answer >> }
    /\ last' = NoLast
    /\ proc' = NoProc
    /\ rt' = NoRt
    /\ UNCHANGED << settings, languages, classifiers, intentDomains, nerManager,
                    slotManager, saved, trainCall >>

\* nerManager.getEntitiesFromUtterance: the %entity% names the text holds.
getEntitiesFromUtterance(utterance) ==
    IF utterance = "eat %food%" THEN { "food" } ELSE {}

-----------------------------------------------------------------------------
(* addDocument, removeDocument *)

\* classifier.add(utterance, intent): the document list with the example
\* recorded (once).
classifierAdd(docs, utterance, intent) ==
    IF << utterance, intent >> \in Range(docs) THEN docs
    ELSE Append(docs, << utterance, intent >>)

\* classifier.remove(utterance, intent): the list without the example.
classifierRemove(docs, utterance, intent) ==
    SelectSeq(docs, LAMBDA d : d # << utterance, intent >>)

\* The locale addDocument / removeDocument work on: the truncated source
\* locale, or the guess when that is falsy.
ResolveLocale(srcLocale, guess) ==
    IF getTruncatedLocale(srcLocale) # NoLocale
    THEN getTruncatedLocale(srcLocale) ELSE guess

\* The guards of addDocument / removeDocument without the classifier test.
DocumentGuardIgnoresMissing(locale, cls) == locale # NoLocale

\* Whether the guards of addDocument / removeDocument let the call through:
\* the locale is defined and has a classifier.
DocumentGuard(locale, cls) == locale # NoLocale /\ locale \in DOMAIN cls

AddDocument(srcLocale, utterance, intent) ==
    \E guess \in GuessSet(languages) :
        LET locale == ResolveLocale(srcLocale, guess)
            ok == DocumentGuard(locale, classifiers)
        IN  /\ last' = [ op |-> "addDocument", threw |-> ~ok,
                         missing |-> locale # NoLocale
                                     /\ locale \notin DOMAIN classifiers ]
            /\ proc' = NoProc
            /\ rt' = NoRt
            /\ IF ok /\ locale \in DOMAIN classifiers
               THEN /\ classifiers' =
                         [ classifiers EXCEPT ![locale].docs =
                               classifierAdd(@, utterance, intent) ]
                    /\ intentDomains' =
                         IF intent \notin DOMAIN intentDomains
                         THEN assignDomainOn(intentDomains, intent, "default")
                         ELSE intentDomains
                    /\ slotManager' = slotManager \cup
                         { << intent, e >> : e \in getEntitiesFromUtterance(utterance) }
               ELSE UNCHANGED << classifiers, intentDomains, slotManager >>
            /\ UNCHANGED << settings, languages, nerManager, responses, saved,
                            trainCall >>

RemoveDocument(srcLocale, utterance, intent) ==
    \E guess \in GuessSet(languages) :
        LET locale == ResolveLocale(srcLocale, guess)
            ok == DocumentGuard(locale, classifiers)
        IN  /\ last' = [ op |-> "removeDocument", threw |-> ~ok,
                         missing |-> locale # NoLocale
                                     /\ locale \notin DOMAIN classifiers ]
            /\ proc' = NoProc
            /\ rt' = NoRt
            /\ IF ok /\ locale \in DOMAIN classifiers
               THEN classifiers' =
                        [ classifiers EXCEPT ![locale].docs =
                              classifierRemove(@, utterance, intent) ]
               ELSE UNCHANGED classifiers
            /\ UNCHANGED << settings, languages, intentDomains, nerManager,
                            slotManager, responses, saved, trainCall >>

-----------------------------------------------------------------------------
(* clear *)

\* The manager fields clear() leaves behind, from the fields before it.
\* this.intentDomains and this.settings are not among the fields clear() assigns.
clearOn(st) ==
    [ st EXCEPT !.nerManager = {}, !.languages = << >>,
                !.classifiers = EmptyMap, !.slotManager = {},
                !.responses = {} ]

Clear ==
    LET st == clearOn([ settings |-> settings, languages |-> languages,
                        classifiers |-> classifiers,
                        intentDomains |-> intentDomains,
                        nerManager |-> nerManager, slotManager |-> slotManager,
                        responses |-> responses ])
    IN  /\ settings' = st.settings
        /\ languages' = st.languages
        /\ classifiers' = st.classifiers
        /\ intentDomains' = st.intentDomains
        /\ nerManager' = st.nerManager
        /\ slotManager' = st.slotManager
        /\ responses' = st.responses
        \* trainings still running keep the classifier objects clear() dropped
        /\ trainCall' = [ trainCall EXCEPT !.tasks =
                            [ i \in 1..Len(@) |-> [ @[i] EXCEPT !.detached = TRUE ] ] ]
        /\ last' = [ op |-> "clear", threw |-> FALSE, missing |-> FALSE,
                     settings |-> settings ]
        /\ proc' = NoProc
        /\ rt' = NoRt
        /\ UNCHANGED << saved >>

-----------------------------------------------------------------------------
(* train *)

\* What classifier.train() may leave in a classifier holding `docs`: the
\* feature list and, per label, one dense 0/1 row per document of the label,
\* in the order of the documents.
LabelsOf(docs) == { docs[i][2] : i \in 1..Len(docs) }

TrainedModels(docs) ==
    IF docs = << >> THEN { [ features |-> << >>, observations |-> EmptyMap ] }
    ELSE { [ features |-> [ i \in 1..MaxFeatures |-> i ],
             observations |->
                 [ l \in LabelsOf(docs) |->
                     LET at == SelectSeq([ i \in 1..Len(docs) |-> i ],
                                         LAMBDA i : docs[i][2] = l)
                     IN  [ r \in 1..Len(at) |-> rows[at[r]] ] ] ] :
             rows \in [ 1..Len(docs) -> [ 1..MaxFeatures -> { 0, 1 } ] ] }

\* The list train(locale) walks: the argument as an array when it is truthy,
\* else this.languages.
TrainTargets(locale, langs) ==
    IF locale.isArray \/ locale.items[1] # NoLocale THEN AsArray(locale) ELSE langs

\* The async callback of train's map, up to its first suspension: it starts
\* classifier.train() when the truncated locale has a classifier, and is
\* already fulfilled when it has none.
TrainTask(language, cls) ==
    LET truncated == getTruncatedLocale(language)
    IN  [ language |-> language, truncated |-> truncated, detached |-> FALSE,
          status |-> IF truncated \in DOMAIN cls THEN "running" ELSE "skipped" ]

\* Promise.all over the tasks: rejected once one has failed (without waiting
\* for the others), fulfilled once all are fulfilled, pending otherwise.
PromiseAll(tasks, promise) ==
    IF promise # "pending" THEN promise
    ELSE IF \E i \in 1..Len(tasks) : tasks[i].status = "failed" THEN "rejected"
    ELSE IF \A i \in 1..Len(tasks) : tasks[i].status \in { "done", "skipped" }
         THEN "resolved"
    ELSE "pending"

Running(tasks) == { i \in 1..Len(tasks) : tasks[i].status = "running" }

\* train(locale): fans the trainings out. A new call is taken once the
\* trainings of the previous one have all ended.
Train(locale) ==
    /\ Running(trainCall.tasks) = {}
    /\ LET targets == TrainTargets(locale, languages)
           tasks == [ i \in 1..Len(targets) |-> TrainTask(targets[i], classifiers) ]
       IN  trainCall' = [ tasks |-> tasks, promise |-> PromiseAll(tasks, "pending") ]
    /\ last' = NoLast
    /\ proc' = NoProc
    /\ rt' = NoRt
    /\ UNCHANGED << settings, languages, classifiers, intentDomains, nerManager,
                    slotManager, responses, saved >>

\* One classifier.train() of the call completes: the classifier is refitted
\* and the callback's promise is fulfilled.
TrainingCompletes(i) ==
    /\ i \in Running(trainCall.tasks)
    /\ LET tasks == [ trainCall.tasks EXCEPT ![i].status = "done" ]
           l == trainCall.tasks[i].truncated
       IN  /\ trainCall' = [ tasks |-> tasks,
                             promise |-> PromiseAll(tasks, trainCall.promise) ]
           /\ IF trainCall.tasks[i].detached \/ l \notin DOMAIN classifiers
              THEN UNCHANGED classifiers
              ELSE \E m \in TrainedModels(classifiers[l].docs) :
                       classifiers' = [ classifiers EXCEPT
                                          ![l].features = m.features,
                                          ![l].observations = m.observations ]
    /\ UNCHANGED last
    /\ proc' = NoProc
    /\ rt' = NoRt
    /\ UNCHANGED << settings, languages, intentDomains, nerManager, slotManager,
                    responses, saved >>

\* One classifier.train() of the call fails: the callback's promise rejects.
TrainingFails(i) ==
    /\ i \in Running(trainCall.tasks)
    /\ LET tasks == [ trainCall.tasks EXCEPT ![i].status = "failed" ]
       IN  trainCall' = [ tasks |-> tasks,
                          promise |-> PromiseAll(tasks, trainCall.promise) ]
    /\ UNCHANGED last
    /\ proc' = NoProc
    /\ rt' = NoRt
    /\ UNCHANGED << settings, languages, classifiers, intentDomains, nerManager,
                    slotManager, responses, saved >>

-----------------------------------------------------------------------------
(* export *)

\* n => n of Array.prototype.filter on an optional index: undefined and the
\* number 0 are falsy.
Truthy(opt) == opt # << >> /\ opt[1] # 0

\* features.map((feat, index) => (feat === 1 ? index : undefined))
\*         .filter(n => n)
sparseRow(features) ==
    LET mapped == [ i \in 1..Len(features) |->
                      IF features[i] = 1 THEN << i - 1 >> ELSE << >> ]
        kept == SelectSeq(mapped, Truthy)
    IN  [ j \in 1..Len(kept) |-> kept[j][1] ]

\* The forEach over lrc.observations: every row of every label's matrix is
\* replaced by its list of positions.
sparseObservations(observations) ==
    [ label \in DOMAIN observations |->
        [ row \in 1..Len(observations[label]) |->
            sparseRow(observations[label][row]) ] ]

RECURSIVE exportLoop(_, _, _)
\* The forEach of export over the languages still to visit: `clones` is
\* clone.classifiers so far. logistic.observations is lrc.observations itself,
\* so the classifier's own matrices are the ones rewritten. A language
\* without a classifier ends the walk with a TypeError.
exportLoop(langs, cls, clones) ==
    IF langs = << >> THEN [ classifiers |-> cls, clones |-> clones, threw |-> FALSE ]
    ELSE IF Head(langs) \notin DOMAIN cls
    THEN [ classifiers |-> cls, clones |-> clones, threw |-> TRUE ]
    ELSE LET language == Head(langs)
             classifier == cls[language]
             sparse == sparseObservations(classifier.observations)
             classifierClone ==
                 [ language |-> classifier.language, docs |-> classifier.docs,
                   features |-> classifier.features,
                   logistic |-> [ observations |-> sparse ] ]
         IN  exportLoop(Tail(langs),
                        [ cls EXCEPT ![language].observations = sparse ],
                        Append(clones, classifierClone))

\* JSON.stringify(clone) or JSON.stringify(clone, null, 2): the same value in
\* one of two layouts.
Stringify(clone, minified) == [ indent |-> IF minified THEN 0 ELSE 2, json |-> clone ]

\* JSON.parse(data)
Parse(data) == data.json

Export(minified) ==
    LET walk == exportLoop(languages, classifiers, << >>)
        clone == [ settings |-> settings, languages |-> languages,
                   intentDomains |-> intentDomains, nerManager |-> nerManager,
                   slotManager |-> slotManager, classifiers |-> walk.clones,
                   responses |-> responses ]
        str == Stringify(clone, minified)
    IN  /\ classifiers' = walk.classifiers
        /\ saved' = IF walk.threw THEN saved ELSE << str >>
        /\ last' = NoLast
        /\ proc' = NoProc
        /\ rt' = IF walk.threw THEN NoRt
                 ELSE IF rt.phase = 2
                 THEN [ rt EXCEPT !.phase = 3, !.second = << str >> ]
                 ELSE [ phase |-> 1, model |-> classifiers, first |-> << str >>,
                        second |-> << >>,
                        \* the string of the export just before this one, if
                        \* no other call came in between
                        prev |-> IF rt.phase = 1 THEN rt.first ELSE << >> ]
        /\ UNCHANGED << settings, languages, intentDomains, nerManager,
                        slotManager, responses, trainCall >>

-----------------------------------------------------------------------------
(* import *)

\* Array(n).fill(0), then features[featPosition] = 1 for every stored
\* position, one position to the right.
denseRowShifted(n, row) ==
    [ i \in 1..n |-> IF \E j \in 1..Len(row) : row[j] = i - 2 THEN 1 ELSE 0 ]

\* Array(n).fill(0), then features[featPosition] = 1 for every stored
\* position. (Positions are below n in every string export produces.)
denseRow(n, row) ==
    [ i \in 1..n |-> IF \E j \in 1..Len(row) : row[j] = i - 1 THEN 1 ELSE 0 ]

denseObservations(n, observations) ==
    [ label \in DOMAIN observations |->
        [ rowIndex \in 1..Len(observations[label]) |->
            denseRow(n, observations[label][rowIndex]) ] ]

RECURSIVE importLoop(_, _, _)
\* The for loop of import over clone.classifiers on the registry (langs, cls).
importLoop(clones, langs, cls) ==
    IF clones = << >> THEN [ languages |-> langs, classifiers |-> cls ]
    ELSE LET classifierClone == Head(clones)
             reg == addLanguageOn(One(classifierClone.language), langs, cls)
             classifier == reg.classifiers[classifierClone.language]
             loaded == [ classifier EXCEPT
                           !.docs = classifierClone.docs,
                           !.features = classifierClone.features,
                           !.observations =
                               denseObservations(Len(classifierClone.features),
                                   classifierClone.logistic.observations) ]
         IN  importLoop(Tail(clones), reg.languages,
                        Put(reg.classifiers, classifierClone.language, loaded))

\* import(data), for a string export returned.
Import ==
    /\ saved # << >>
    /\ LET clone == Parse(saved[1])
           reg == importLoop(clone.classifiers, clone.languages, classifiers)
       IN  /\ settings' = clone.settings
           /\ languages' = reg.languages
           /\ classifiers' = reg.classifiers
           /\ nerManager' = clone.nerManager
           /\ slotManager' = clone.slotManager
           /\ intentDomains' = clone.intentDomains
           /\ responses' = clone.responses
    /\ last' = NoLast
    /\ proc' = NoProc
    /\ rt' = IF rt.phase = 1 THEN [ rt EXCEPT !.phase = 2, !.prev = << >> ]
             ELSE NoRt
    /\ UNCHANGED << saved, trainCall >>

-----------------------------------------------------------------------------
(* Construction *)

\* new NlpManager(settings), settings.languages not given.
InitWith(s) ==
    /\ settings = s
    /\ languages = << >>
    /\ classifiers = EmptyMap
    /\ intentDomains = EmptyMap
    /\ nerManager = {}
    /\ slotManager = {}
    /\ responses = {}
    /\ saved = << >>
    /\ trainCall = NoTrain
    /\ last = NoLast
    /\ rt = NoRt
    /\ proc = NoProc

\* new NlpManager(): fullSearchWhenGuessed defaults to true.
Init == InitWith([ fullSearchWhenGuessed |-> TRUE ])

\* Arguments of addLanguage: single codes, arrays, un-normalized spellings.
LanguageArgs == { One(En), One(Es), One(EnUS), Many(<< En, Es >>), Many(<< Es, EnUS >>) }

\* The registry: locales, documents, export and import, clear.
Next ==
    \/ \E a \in LanguageArgs : AddLanguage(a)
    \/ \E l \in { En, Es } : AddDocument(l, "hello", "greet")
    \/ \E m \in BOOLEAN : Export(m)
    \/ Import
    \/ Clear

Spec == Init /\ [][Next]_vars

\* The codec: one locale, trained, exported (in the default layout) and
\* imported.
NextCodec ==
    \/ AddLanguage(One(En))
    \/ \E i \in { "greet", "bye" } : AddDocument(En, "hello", i)
    \/ Train(One(NoLocale))
    \/ \E i \in 1..Len(trainCall.tasks) : TrainingCompletes(i)
    \/ Export(FALSE)
    \/ Import

SpecCodec == Init /\ [][NextCodec]_vars

\* The lifecycle: everything clear() is to reset gets filled, then cleared.
NextLifecycle ==
    \/ \E a \in { One(En), One(EnUS), Many(<< Es, En >>) } : AddLanguage(a)
    \/ \E u \in { "hello", "eat %food%" } : AddDocument(En, u, "greet")
    \/ AssignDomain("greet", "smalltalk")
    \/ AddNamedEntityText("food")
    \/ AddAnswer(En, "greet", "Hi")
    \/ Clear

SpecLifecycle == Init /\ [][NextLifecycle]_vars

-----------------------------------------------------------------------------
(* Properties of the registry *)

NoDuplicates(s) == \A i, j \in 1..Len(s) : s[i] = s[j] => i = j

\* C4 (registry invariant): in every state reachable by addLanguage, clear and
\* import, the languages list holds no locale twice, every locale in it has a
\* bound classifier, and no classifier is bound to a locale outside the list.
\* (The claim's last clause, that re-adding keeps the classifier, is
\* C4_ReAddKeepsClassifier below.)
C4_RegistryInvariant ==
    /\ NoDuplicates(languages)
    /\ \A l \in Range(languages) : l \in DOMAIN classifiers
    /\ \A l \in DOMAIN classifiers : l \in Range(languages)

\* C4, the clauses of the invariant that import does not break.
C4_ListedLocalesBound ==
    /\ NoDuplicates(languages)
    /\ \A l \in Range(languages) : l \in DOMAIN classifiers

\* C4, last clause: an addLanguage step leaves every classifier that was bound
\* before it as it was.
C4_ReAddKeepsClassifier ==
    [][ (\E a \in LanguageArgs : AddLanguage(a)) =>
            \A l \in DOMAIN classifiers :
                l \in DOMAIN classifiers' /\ classifiers'[l] = classifiers[l] ]_vars

-----------------------------------------------------------------------------
(* Properties of clear *)

\* C10 (clear is a full reset): right after clear the locale list is empty, no
\* classifier is bound, the intent-domain map is empty and getDomains returns
\* no intents, NER, slot and answer state are empty, and the settings are the
\* ones before the call.
C10_ClearResetsAll ==
    last.op = "clear" =>
        /\ languages = << >>
        /\ classifiers = EmptyMap
        /\ intentDomains = EmptyMap
        /\ getDomains = EmptyMap
        /\ nerManager = {}
        /\ slotManager = {}
        /\ responses = {}
        /\ settings = last.settings

\* C10 without the intent-domain map: what clear() does reset.
C10_ClearResetsRest ==
    last.op = "clear" =>
        /\ languages = << >>
        /\ classifiers = EmptyMap
        /\ nerManager = {}
        /\ slotManager = {}
        /\ responses = {}
        /\ settings = last.settings

-----------------------------------------------------------------------------
(* Properties of the codec *)

\* The rows of every matrix of every classifier of a registry.
RowsOf(cls) ==
    UNION { UNION { Range(cls[l].observations[label]) :
                      label \in DOMAIN cls[l].observations } : l \in DOMAIN cls }

\* No observation row has a 1 in feature column 0.
NoColumn0(cls) == \A row \in RowsOf(cls) : Len(row) > 0 => row[1] # 1

\* Every row is a 0/1 vector as long as the feature list: the matrices are as
\* training left them.
Dense(cls) ==
    \A l \in DOMAIN cls : \A label \in DOMAIN cls[l].observations :
        \A r \in 1..Len(cls[l].observations[label]) :
            LET row == cls[l].observations[label][r]
            IN  Len(row) = Len(cls[l].features) /\ \A i \in 1..Len(row) : row[i] \in { 0, 1 }

\* C5 (codec round trip): when no observation row of the model has a 1 in
\* feature column 0, exporting, importing the exported string and exporting
\* again (in the same layout) returns the string of the first export.
C5_RoundTrip ==
    ( /\ rt.phase = 3
      /\ NoColumn0(rt.model)
      /\ rt.first[1].indent = rt.second[1].indent )
        => rt.second = rt.first

\* C5 witness: a round trip was made on a trained model that has a row with a 1
\* right of column 0 and none in column 0.
C5_RoundTripWitness ==
    /\ rt.phase = 3
    /\ NoColumn0(rt.model)
    /\ Dense(rt.model)
    /\ \E row \in RowsOf(rt.model) : \E i \in 2..Len(row) : row[i] = 1
    /\ rt.first[1].indent = rt.second[1].indent
    /\ rt.second = rt.first

\* C6 (lossless sparse encoding): importing the exported model rebuilds, for
\* every label and row of every classifier, exactly the dense row as trained,
\* column 0 included.
C6_LosslessEncoding ==
    ( rt.phase = 2 /\ Dense(rt.model) ) =>
        \A l \in DOMAIN rt.model :
            /\ l \in DOMAIN classifiers
            /\ classifiers[l].observations = rt.model[l].observations

\* C6 restricted to rows without a 1 in column 0: those are rebuilt exactly.
C6_LosslessOffColumn0 ==
    ( rt.phase = 2 /\ Dense(rt.model) /\ NoColumn0(rt.model) ) =>
        \A l \in DOMAIN rt.model :
            /\ l \in DOMAIN classifiers
            /\ classifiers[l].observations = rt.model[l].observations

\* C12 (export is read-only): an export leaves every classifier, its dense
\* observation matrices included, as it was before the call, and an export
\* that directly follows another one (in the same layout) returns the same
\* string.
C12_ExportReadOnly ==
    rt.phase = 1 =>
        /\ classifiers = rt.model
        /\ ( rt.prev # << >> /\ rt.prev[1].indent = rt.first[1].indent )
               => rt.first = rt.prev

\* C12 for the rest of the manager: export changes nothing but the
\* observation matrices of the classifiers it walks.
C12_ExportKeepsRest ==
    [][ Export(FALSE) =>
            /\ UNCHANGED << settings, languages, intentDomains, nerManager,
                            slotManager, responses, trainCall >>
            /\ DOMAIN classifiers' = DOMAIN classifiers
            /\ \A l \in DOMAIN classifiers :
                   /\ classifiers'[l].language = classifiers[l].language
                   /\ classifiers'[l].docs = classifiers[l].docs
                   /\ classifiers'[l].features = classifiers[l].features ]_vars

-----------------------------------------------------------------------------
(* Training *)

\* Arguments of train: nothing, a single code, arrays (with an unregistered
\* locale, with two spellings of one locale).
TrainArgs == { One(NoLocale), One(Fr), Many(<< En, Fr >>), Many(<< En, Es >>),
               Many(<< En, EnUS >>) }

\* Training: documents go in and out, train calls fan out and join.
NextTrain ==
    \/ \E l \in { En, Es } : AddLanguage(One(l))
    \/ \E l \in { En, Fr, NoLocale } : AddDocument(l, "hello", "greet")
    \/ \E l \in { En, Fr, NoLocale } : RemoveDocument(l, "hello", "greet")
    \/ \E a \in TrainArgs : Train(a)
    \/ \E i \in 1..Len(trainCall.tasks) : TrainingCompletes(i)
    \/ \E i \in 1..Len(trainCall.tasks) : TrainingFails(i)
    \/ Clear

SpecTrain == Init /\ [][NextTrain]_vars

Statuses(tasks) == { tasks[i].status : i \in 1..Len(tasks) }

Settled == trainCall.promise \in { "resolved", "rejected" }

\* C8 (training join): the promise of a train call settles only once none of
\* the trainings it triggered is still running, and it is rejected when one of
\* them failed.
C8_TrainJoin ==
    /\ Settled => Running(trainCall.tasks) = {}
    /\ ( Settled /\ "failed" \in Statuses(trainCall.tasks) )
           => trainCall.promise = "rejected"

\* C8, second half alone: a failed training is reported.
C8_FailureReported ==
    "failed" \in Statuses(trainCall.tasks) => trainCall.promise = "rejected"

\* C8, first half for calls that succeed: a fulfilled call has nothing running.
C8_ResolvedAfterAll ==
    trainCall.promise = "resolved" =>
        Statuses(trainCall.tasks) \subseteq { "done", "skipped" }

\* The part of C9 about documents: addDocument / removeDocument on a resolved
\* locale without a classifier threw.
DocumentCallFailsOnMissing ==
    ( last.op \in { "addDocument", "removeDocument" } /\ last.missing ) => last.threw

\* C9 (missing-classifier failure), as claimed: addDocument, removeDocument
\* and train each fail whenever a locale they resolve has no bound classifier;
\* for train, a call that met such a locale is never fulfilled.
C9_MissingClassifierFails ==
    /\ DocumentCallFailsOnMissing
    /\ "skipped" \in Statuses(trainCall.tasks) => trainCall.promise # "resolved"

\* C9 as amended: addDocument and removeDocument fail on a resolved locale
\* without a classifier; train skips such a locale: the call is rejected only
\* when a training it started failed, and is fulfilled once the trainings it
\* started have all completed.
C9_MissingClassifierAmended ==
    /\ DocumentCallFailsOnMissing
    /\ "skipped" \in Statuses(trainCall.tasks) =>
          /\ trainCall.promise = "rejected"
                => "failed" \in Statuses(trainCall.tasks)
          /\ Statuses(trainCall.tasks) \subseteq { "done", "skipped" }
                => trainCall.promise = "resolved"

\* C9 witness: addDocument has just thrown for a locale without a classifier,
\* and a train call that skipped such a locale and trained another is fulfilled.
C9_MissingClassifierWitness ==
    /\ last.op = "addDocument" /\ last.missing /\ last.threw
    /\ Statuses(trainCall.tasks) = { "done", "skipped" }
    /\ trainCall.promise = "resolved"

\* The trainings a call triggered: the callbacks that reached
\* classifier.train().
Triggered(tasks) == { i \in 1..Len(tasks) : tasks[i].status # "skipped" }

\* C11 (training targets are deduplicated): within one train call the
\* classifier of each normalized locale has training triggered at most once,
\* so no classifier has two trainings of that call in flight at the same time,
\* whatever spellings and repetitions the locale argument holds.
C11_TrainDeduplicated ==
    /\ \A i, j \in Triggered(trainCall.tasks) :
           trainCall.tasks[i].truncated = trainCall.tasks[j].truncated => i = j
    /\ \A i, j \in Running(trainCall.tasks) :
           trainCall.tasks[i].truncated = trainCall.tasks[j].truncated => i = j

\* C11 for the spellings as given: what does hold is that no item of the list
\* the call walks is trained twice when the items normalize to different
\* locales.
C11_OncePerDistinctItem ==
    ( \A i, j \in 1..Len(trainCall.tasks) :
          trainCall.tasks[i].truncated = trainCall.tasks[j].truncated => i = j )
        => \A i, j \in Triggered(trainCall.tasks) :
               trainCall.tasks[i].language = trainCall.tasks[j].language => i = j

-----------------------------------------------------------------------------
(* classify, process *)

\* undefined, and a defined value.
Undef == [ defined |-> FALSE ]
Def(v) == [ defined |-> TRUE, value |-> v ]

Entry(label, value) == [ label |-> label, value |-> value ]

\* What a classifier's getClassifications may return: ranked (label, score)
\* lists, scores descending; empty, uniform 0.5, 0.5 on top of a lower score,
\* and lists topped by 0.4 and (twice, for ties) by 0.6.
ClassificationSamples ==
    { << >>,
      << Entry("greet", 5), Entry("bye", 5) >>,
      << Entry("bye", 5), Entry("greet", 4) >>,
      << Entry("greet", 4) >>,
      << Entry("greet", 6) >>,
      << Entry("bye", 6), Entry("greet", 5) >> }

\* The text generateEntityUtterance gives back for "hello" when it finds an
\* entity to replace.
Substituted == "%greeting%"

\* classify(srcLocale, srcUtterance) with an utterance given: undefined
\* without a classifier for the truncated locale, else what the classifier
\* answers for the text (answers: locale -> text -> classification).
classify(cls, answers, srcLocale, utterance) ==
    LET truncated == getTruncatedLocale(srcLocale)
    IN  IF truncated \notin DOMAIN cls THEN Undef
        ELSE Def(answers[truncated][utterance])

\* isEqualClassification, looking at the first entry alone.
isEqualClassificationFirst(classifications) ==
    classifications # << >> => classifications[1].value = Half

\* isEqualClassification(classifications): every score is exactly 0.5.
isEqualClassification(classifications) ==
    \A i \in 1..Len(classifications) : classifications[i].value = Half

\* The update test of the full-search scans with >= for >.
beatsBestOrTies(classification, best) ==
    /\ classification.defined /\ Len(classification.value) > 0
    /\ \/ ~best.defined
       \/ classification.value[1].value >= best.value[1].value

\* The update test of the full-search scans: the classification is there, is
\* not empty, and no best score is set yet or its top score is greater.
beatsBest(classification, best) ==
    /\ classification.defined /\ Len(classification.value) > 0
    /\ \/ ~best.defined
       \/ classification.value[1].value > best.value[1].value

RECURSIVE fullSearchScan(_, _, _, _, _)
\* One this.languages.forEach of the full search: classify the text under
\* every language still to visit, keeping the running best.
fullSearchScan(langs, cls, answers, text, best) ==
    IF langs = << >> THEN best
    ELSE LET classification == classify(cls, answers, Head(langs), text)
         IN  fullSearchScan(Tail(langs), cls, answers, text,
                            IF beatsBest(classification, best)
                            THEN classification ELSE best)

\* The else branch with >= for >.
reclassifyOrTies(original, optional, differs) ==
    IF differs /\ optional.defined /\ Len(optional.value) > 0
    THEN IF ~original.defined \/ Len(original.value) = 0
         THEN [ threw |-> TRUE, classification |-> original ]
         ELSE [ threw |-> FALSE,
                classification |->
                    IF optional.value[1].value >= original.value[1].value
                    THEN optional ELSE original ]
    ELSE [ threw |-> FALSE, classification |-> original ]

\* The else branch of process: the original classification, replaced by the
\* one of the entity-substituted text when that text differs and its top score
\* is greater. Reading [0].value of an absent or empty original is a
\* TypeError.
reclassify(original, optional, differs) ==
    IF differs /\ optional.defined /\ Len(optional.value) > 0
    THEN IF ~original.defined \/ Len(original.value) = 0
         THEN [ threw |-> TRUE, classification |-> original ]
         ELSE [ threw |-> FALSE,
                classification |->
                    IF optional.value[1].value > original.value[1].value
                    THEN optional ELSE original ]
    ELSE [ threw |-> FALSE, classification |-> original ]

\* The outcome mapping of process: intent, domain and score of a final
\* classification.
outcome(classification, domains) ==
    IF \/ ~classification.defined
       \/ Len(classification.value) = 0
       \/ isEqualClassification(classification.value)
    THEN [ intent |-> "None", domain |-> Def("default"), score |-> FullScore ]
    ELSE LET top == classification.value[1]
         IN  [ intent |-> top.label,
               domain |-> IF top.label \in DOMAIN domains
                          THEN Def(domains[top.label]) ELSE Undef,
               score |-> top.value ]

\* The locale process works with, and whether it was guessed.
resolveProcessLocale(srcLocale, oneArg, guess, langs) ==
    LET locale1 == IF oneArg THEN guess ELSE srcLocale
        guessed1 == oneArg
    IN  IF getTruncatedLocale(locale1) \notin Range(langs)
        THEN [ locale |-> IF guess # NoLocale THEN guess
                          ELSE IF langs # << >> THEN langs[1] ELSE NoLocale,
               languageGuessed |-> TRUE ]
        ELSE [ locale |-> locale1, languageGuessed |-> guessed1 ]

\* process(srcLocale, srcUtterance) (oneArg: process(utterance)), with what
\* the collaborators answer during the call: the guesser (guess), the
\* classifiers (answers), generateEntityUtterance (optionalUtterance),
\* findEntities (entities) and getAnswer with the rendering (answer).
\* process leaves the manager as it is; the log takes a call when it is empty.
Process(srcLocale, oneArg, utterance) ==
    /\ proc = NoProc
    /\ \E guess \in GuessSet(languages),
          optionalUtterance \in { utterance, Substituted },
          entities \in { << >>, << "food" >> },
          answer \in { Undef, Def("Hi") } :
        LET res == resolveProcessLocale(srcLocale, oneArg, guess, languages)
            truncated == getTruncatedLocale(res.locale)
            fullSearch == res.languageGuessed /\ settings.fullSearchWhenGuessed
            consulted == IF fullSearch THEN Range(languages)
                         ELSE { truncated } \cap DOMAIN classifiers
            texts == { utterance, optionalUtterance }
        IN  \E answers \in [ consulted -> [ texts -> ClassificationSamples ] ] :
              LET first == fullSearchScan(languages, classifiers, answers,
                                          utterance, Undef)
                  best == fullSearchScan(languages, classifiers, answers,
                                         optionalUtterance, first)
                  original == classify(classifiers, answers, truncated, utterance)
                  optional == classify(classifiers, answers, truncated,
                                       optionalUtterance)
                  chosen == IF fullSearch
                            THEN [ threw |-> FALSE, classification |-> best ]
                            ELSE reclassify(original, optional,
                                            optionalUtterance # utterance)
                  out == outcome(chosen.classification, intentDomains)
                  call == [ srcLocale |-> srcLocale, oneArg |-> oneArg,
                            utterance |-> utterance, guess |-> guess,
                            languageGuessed |-> res.languageGuessed,
                            fullSearch |-> fullSearch,
                            optionalUtterance |-> optionalUtterance,
                            answers |-> answers ]
              IN  proc' =
                    IF chosen.threw
                    THEN [ state |-> "threw", call |-> call,
                           result0 |-> [ locale |-> res.locale ] ]
                    ELSE [ state |-> "returned", call |-> call,
                           result |->
                             [ locale |-> res.locale, localeIso2 |-> truncated,
                               utterance |-> utterance,
                               classification |-> chosen.classification,
                               intent |-> out.intent, domain |-> out.domain,
                               score |-> out.score, entities |-> entities,
                               answer |-> answer ] ]
    /\ last' = NoLast
    /\ rt' = NoRt
    /\ UNCHANGED << settings, languages, classifiers, intentDomains, nerManager,
                    slotManager, responses, saved, trainCall >>

\* new NlpManager(settings) with fullSearchWhenGuessed given or defaulted.
InitProcess ==
    \E b \in BOOLEAN : InitWith([ fullSearchWhenGuessed |-> b ])

\* Processing: locales and domains are set up, utterances are processed.
NextProcess ==
    \/ \E l \in { En, Es } : AddLanguage(One(l))
    \/ AssignDomain("greet", "smalltalk")
    \/ \E l \in { NoLocale, En, EnUS, Es } : Process(l, FALSE, "hello")
    \/ Process(NoLocale, TRUE, "hello")

SpecProcess == InitProcess /\ [][NextProcess]_vars

-----------------------------------------------------------------------------
(* Properties of process *)

TopScore(c) == c[1].value

AllHalf(c) == \A i \in 1..Len(c) : c[i].value = 5

\* What the classifier of locale l answered for the utterance, and for the
\* entity-substituted utterance, during the logged call.
OriginalOf(l) == proc.call.answers[l][proc.call.utterance]
OptionalOf(l) == proc.call.answers[l][proc.call.optionalUtterance]

\* The logged call ran the full search over two registered locales, and B's
\* classification of the utterance tops A's.
FullSearchCase(A, B) ==
    /\ proc.state = "returned"
    /\ proc.call.fullSearch
    /\ Len(languages) = 2 /\ A \in Range(languages) /\ B \in Range(languages)
    /\ A # B
    /\ OriginalOf(A) # << >> /\ OriginalOf(B) # << >>
    /\ TopScore(OriginalOf(B)) > TopScore(OriginalOf(A))

\* C1 (full-search arbitration), as claimed: with fullSearchWhenGuessed on, two
\* registered locales A and B and the locale guessed, whenever B's top score
\* for the utterance is greater than A's, process returns B's classification
\* and B's top label as the intent.
C1_FullSearchReturnsB ==
    \A A, B \in Range(languages) :
        FullSearchCase(A, B) =>
            /\ proc.result.classification = Def(OriginalOf(B))
            /\ proc.result.intent = OriginalOf(B)[1].label

\* No registered locale classifies the entity-substituted utterance with a top
\* score above that of classification c.
NoOptionalAbove(c) ==
    \A l \in Range(languages) :
        OptionalOf(l) # << >> => TopScore(OptionalOf(l)) <= TopScore(c)

\* C1 as amended: in that case process returns B's classification of the
\* utterance unless some registered locale classifies the entity-substituted
\* utterance with a greater top score; the intent is then B's top label, or
\* "None" when every score of B's classification is exactly 0.5.
C1_FullSearchAmended ==
    \A A, B \in Range(languages) :
        ( FullSearchCase(A, B) /\ NoOptionalAbove(OriginalOf(B)) ) =>
            /\ proc.result.classification = Def(OriginalOf(B))
            /\ proc.result.intent =
                  IF AllHalf(OriginalOf(B)) THEN "None" ELSE OriginalOf(B)[1].label

\* C1 witness: B, registered after A, wins the full search with an
\* entity-substituted utterance in play that ties B's top score elsewhere.
C1_FullSearchWitness ==
    \E A, B \in Range(languages) :
        /\ FullSearchCase(A, B) /\ NoOptionalAbove(OriginalOf(B))
        /\ languages = << A, B >>
        /\ proc.call.optionalUtterance # proc.call.utterance
        /\ OptionalOf(A) # << >> /\ OptionalOf(A) # OriginalOf(B)
        /\ TopScore(OptionalOf(A)) = TopScore(OriginalOf(B))
        /\ proc.result.classification = Def(OriginalOf(B))
        /\ proc.result.intent = OriginalOf(B)[1].label

\* The logged call was given a registered locale, which process kept.
ExplicitLocale ==
    /\ proc.state \in { "returned", "threw" }
    /\ ~proc.call.languageGuessed

GivenLocale == getTruncatedLocale(proc.call.srcLocale)

\* The entity-substituted utterance scores above the original under locale l.
OptionalBeatsOriginal(l) ==
    /\ OptionalOf(l) # << >> /\ OriginalOf(l) # << >>
    /\ TopScore(OptionalOf(l)) > TopScore(OriginalOf(l))

\* C2 (entity-aware reclassification): a process call with a given, registered
\* locale returns the classification of the entity-substituted utterance when
\* its top score is greater than that of the original utterance's
\* classification under the locale, and the original classification on an
\* equal or lower top score.
C2_Reclassification ==
    ( ExplicitLocale /\ proc.state = "returned" ) =>
        proc.result.classification =
            Def(IF OptionalBeatsOriginal(GivenLocale)
                THEN OptionalOf(GivenLocale) ELSE OriginalOf(GivenLocale))

\* C2 witness: the substituted utterance scored higher and its classification
\* was returned.
C2_ReclassificationWitness ==
    /\ ExplicitLocale /\ proc.state = "returned"
    /\ OptionalBeatsOriginal(GivenLocale)
    /\ proc.result.classification = Def(OptionalOf(GivenLocale))
    /\ proc.result.intent = OptionalOf(GivenLocale)[1].label

\* C2, the other direction reached: a tie between two different
\* classifications kept the original.
C2_TieKeepsOriginal ==
    /\ ExplicitLocale /\ proc.state = "returned"
    /\ OptionalOf(GivenLocale) # << >> /\ OriginalOf(GivenLocale) # << >>
    /\ OptionalOf(GivenLocale) # OriginalOf(GivenLocale)
    /\ TopScore(OptionalOf(GivenLocale)) = TopScore(OriginalOf(GivenLocale))
    /\ proc.result.classification = Def(OriginalOf(GivenLocale))

\* C3 (outcome mapping): the result of process has intent "None", domain
\* "default" and score 1 when its classification is absent, empty or all
\* scores are exactly 0.5; otherwise the intent is the top entry's label, the
\* domain is that intent's entry in the intent-domain map and the score is the
\* top entry's score.
C3_OutcomeMapping ==
    proc.state = "returned" =>
        LET c == proc.result.classification
        IN  IF ~c.defined \/ c.value = << >> \/ AllHalf(c.value)
            THEN /\ proc.result.intent = "None"
                 /\ proc.result.domain = Def("default")
                 /\ proc.result.score = 10
            ELSE /\ proc.result.intent = c.value[1].label
                 /\ proc.result.domain =
                       IF c.value[1].label \in DOMAIN intentDomains
                       THEN Def(intentDomains[c.value[1].label]) ELSE Undef
                 /\ proc.result.score = c.value[1].value

\* C3 witness: a classification topped by 0.5 over a lower score gave its top
\* label, with the domain assigned to it.
C3_OutcomeWitness ==
    /\ proc.state = "returned"
    /\ proc.result.classification.defined
    /\ Len(proc.result.classification.value) = 2
    /\ proc.result.classification.value[1].value = 5
    /\ proc.result.classification.value[2].value < 5
    /\ proc.result.intent = proc.result.classification.value[1].label

\* C3, the degenerate case reached: uniform 0.5 scores gave "None".
C3_NoneReached ==
    /\ proc.state = "returned"
    /\ proc.result.classification.defined
    /\ Len(proc.result.classification.value) = 2
    /\ AllHalf(proc.result.classification.value)
    /\ proc.result.intent = "None" /\ proc.result.score = 10

\* C7 (graceful degradation): process returns a result, whatever the
\* collaborators answer: no locale guessed, empty or absent classifications
\* (an empty one for the utterance with a non-empty one for the
\* entity-substituted utterance included), no entities, no answer.
C7_ProcessAlwaysReturns == proc.state # "threw"

\* C7, the cases that do degrade: outside the case of an empty original with a
\* non-empty substituted classification under a given locale, process returns.
C7_ReturnsOtherwise ==
    proc.state = "threw" =>
        /\ ~proc.call.fullSearch
        /\ proc.call.optionalUtterance # proc.call.utterance
        /\ OriginalOf(getTruncatedLocale(proc.result0.locale)) = << >>
        /\ OptionalOf(getTruncatedLocale(proc.result0.locale)) # << >>

====
